---- MODULE Spec2Model ----
(***************************************************************************)
(* Expense tracker API (app/api/v1/expenses): the expense store, the CRUD  *)
(* handlers and the analytics queries of ExpenseService, with the routes   *)
(* that serialise their results.                                           *)
(*                                                                         *)
(* Conventions                                                             *)
(*  - Money in the store is Numeric(10,2): an integer number of cents.     *)
(*  - A request amount is a float; the inputs used here are multiples of   *)
(*    0.001 and are written in mills (1 mill = 0.001).                     *)
(*  - A Python float held by the service is a rational [n, d] (n/d); the   *)
(*    serialisers round it to an integer number of hundredths.             *)
(*  - Optional[T] is a sequence of length <= 1: None is <<>>, v is <<v>>.  *)
(*  - A timestamp is the integer YYYYMMDDHH.                               *)
(*  - A query whose ORDER BY leaves ties open yields the SET of row        *)
(*    sequences the store may return; the handler picks one of them.       *)
(***************************************************************************)
EXTENDS Integers, Sequences, FiniteSets, TLC

VARIABLES store, next_id, resp

vars == <<store, next_id, resp>>

(* ------------------------------ bounds -------------------------------- *)

MaxExpenses == 2

(* ---------------------------- basic values ---------------------------- *)

None == <<>>

Some(v) == <<v>>

IsNone(o) == o = <<>>

ExpenseCategory ==
    <<"Food", "Transport", "Rent", "Groceries", "Utilities", "Entertainment",
      "Healthcare", "Education", "Shopping", "Savings", "Foodstuff", "Travel",
      "Others">>

Categories == {ExpenseCategory[i] : i \in DOMAIN ExpenseCategory}

Timestamp(y, m, d, h) == ((y * 100 + m) * 100 + d) * 100 + h

Year(t) == t \div 1000000

Month(t) == (t \div 10000) % 100

Date(t) == t \div 100

RECURSIVE GCD(_, _)
GCD(a, b) == IF b = 0 THEN a ELSE GCD(b, a % b)

(* A rational in lowest terms (d > 0). *)
Ratio(n, d) == LET g == GCD(IF n < 0 THEN -n ELSE n, d)
               IN  [n |-> n \div g, d |-> d \div g]

(* Python float arithmetic on the values the service handles. *)
Float(cents) == Ratio(cents, 100)

FloatZero == [n |-> 0, d |-> 1]

FloatAdd(x, y) == Ratio(x.n * y.d + y.n * x.d, x.d * y.d)

FloatTruthy(x) == x.n # 0

(* round(float(value), 2): nearest hundredth, ties to even; in hundredths. *)
Round2(x) ==
    LET num == x.n * 100
        q   == num \div x.d
        r   == num % x.d
    IN  IF 2 * r < x.d THEN q
        ELSE IF 2 * r > x.d THEN q + 1
        ELSE IF q % 2 = 0 THEN q ELSE q + 1

FloatDiv(x, y) == Ratio(x.n * y.d, x.d * y.n)

FloatMulInt(x, k) == Ratio(x.n * k, x.d)

RECURSIVE FloatSum(_)
FloatSum(seq) ==
    IF seq = <<>> THEN FloatZero
    ELSE FloatAdd(Head(seq), FloatSum(Tail(seq)))

RECURSIVE IntSum(_)
IntSum(seq) == IF seq = <<>> THEN 0 ELSE Head(seq) + IntSum(Tail(seq))

(* Text is a sequence of one-character strings. *)
Digit == <<"0", "1", "2", "3", "4", "5", "6", "7", "8", "9">>

(* str(int(n)) / "{n}" for n >= 0: decimal digits, no padding. *)
RECURSIVE IntToStr(_)
IntToStr(n) ==
    IF n < 10 THEN <<Digit[n + 1]>>
    ELSE IntToStr(n \div 10) \o <<Digit[(n % 10) + 1]>>

(* "{n:0wd}": zero-padded to at least w characters. *)
ZeroPad(n, w) ==
    LET t == IntToStr(n)
    IN  IF Len(t) >= w THEN t ELSE [i \in 1..(w - Len(t)) |-> "0"] \o t

(* Numeric(10,2) column: the store keeps a float amount rounded to cents. *)
Numeric2(mills) == (mills + 5) \div 10

(* ------------------------------- store -------------------------------- *)

OwnedIds(s, user_id) == {i \in DOMAIN s : s[i].user_id = user_id}

RECURSIVE SumAmount(_, _)
SumAmount(s, ids) ==
    IF ids = {} THEN 0
    ELSE LET i == CHOOSE j \in ids : TRUE
         IN  s[i].amount + SumAmount(s, ids \ {i})

(* InWindow with the upper bound exclusive. *)
InWindow_ExclusiveEnd(t, start_date, end_date) ==
    /\ (IsNone(start_date) \/ t >= start_date[1])
    /\ (IsNone(end_date) \/ t < end_date[1])

(* WHERE expense_date >= start_date / <= end_date, each applied only when *)
(* the bound is given.                                                     *)
InWindow(t, start_date, end_date) ==
    /\ (IsNone(start_date) \/ t >= start_date[1])
    /\ (IsNone(end_date) \/ t <= end_date[1])

NoResp == [op |-> "none"]

Init ==
    /\ store = <<>>
    /\ next_id = 1
    /\ resp = NoResp

(* --------------------------- create / update -------------------------- *)

(* ExpenseService.create_expense + route create_expense.  The request has  *)
(* passed ExpenseCreateModel (amount > 0, category in the enumeration).    *)
service_create_expense(s, id, user_id, data) ==
    [i \in DOMAIN s \cup {id} |->
        IF i = id
        THEN [user_id      |-> user_id,
              title        |-> data.title,
              amount       |-> Numeric2(data.amount),
              category     |-> data.category,
              description  |-> data.description,
              expense_date |-> data.expense_date]
        ELSE s[i]]

ExpenseCreateModel(T, A, C, D) ==
    {d \in [title : T, amount : A, category : C, description : {None},
            expense_date : D] : d.amount > 0 /\ d.category \in Categories}

create_expense(cap, U, T, A, C, D) ==
    /\ next_id <= cap
    /\ \E user_id \in U, data \in ExpenseCreateModel(T, A, C, D) :
        /\ store' = service_create_expense(store, next_id, user_id, data)
        /\ next_id' = next_id + 1
        /\ resp' = [op |-> "create", user_id |-> user_id, status |-> 201,
                    id |-> next_id, body |-> store'[next_id]]

(* get_expense_by_id that looks the id up without the owner condition. *)
get_expense_by_id_AnyOwner(s, expense_id, user_id) ==
    IF expense_id \in DOMAIN s THEN Some(expense_id) ELSE None

(* ExpenseService.get_expense_by_id: id AND owner must both match. *)
get_expense_by_id(s, expense_id, user_id) ==
    IF expense_id \in DOMAIN s /\ s[expense_id].user_id = user_id
    THEN Some(expense_id) ELSE None

StoredValue(key, value) == IF key = "amount" THEN Numeric2(value) ELSE value

(* update_expense that looks the expense up by id alone. *)
service_update_expense_NoOwnerCheck(s, expense_id, user_id, update_data) ==
    IF expense_id \notin DOMAIN s THEN s
    ELSE [s EXCEPT ![expense_id] =
            [k \in DOMAIN s[expense_id] |->
                IF k \in DOMAIN update_data
                THEN StoredValue(k, update_data[k])
                ELSE s[expense_id][k]]]

(* update_expense that defaults a missing expense_date as create does: an  *)
(* update that does not provide the date stamps the expense with "now".    *)
service_update_expense_DefaultsDate(s, expense_id, user_id, update_data) ==
    IF IsNone(get_expense_by_id(s, expense_id, user_id)) THEN s
    ELSE [s EXCEPT ![expense_id] =
            [k \in DOMAIN s[expense_id] |->
                IF k \in DOMAIN update_data
                THEN StoredValue(k, update_data[k])
                ELSE IF k = "expense_date" THEN Timestamp(2024, 12, 31, 10)
                ELSE s[expense_id][k]]]

(* ExpenseService.update_expense: setattr for every provided field. *)
service_update_expense(s, expense_id, user_id, update_data) ==
    IF IsNone(get_expense_by_id(s, expense_id, user_id)) THEN s
    ELSE [s EXCEPT ![expense_id] =
            [k \in DOMAIN s[expense_id] |->
                IF k \in DOMAIN update_data
                THEN StoredValue(k, update_data[k])
                ELSE s[expense_id][k]]]

ExpenseUpdateModel(T, A, C, D) ==
    {<<>>}
    \cup {[k \in {"title"} |-> t] : t \in T}
    \cup {[k \in {"amount"} |-> a] : a \in {x \in A : x > 0}}
    \cup {[k \in {"category"} |-> c] : c \in C \cap Categories}
    \cup {[k \in {"expense_date"} |-> d] : d \in D}

update_expense(cap, U, T, A, C, D) ==
    \E user_id \in U, expense_id \in 1..cap,
       update_data \in ExpenseUpdateModel(T, A, C, D) :
        LET found == get_expense_by_id(store, expense_id, user_id) IN
        /\ store' = service_update_expense(store, expense_id, user_id,
                                           update_data)
        /\ resp' = IF IsNone(found)
                   THEN [op |-> "update", user_id |-> user_id,
                         status |-> 404, id |-> expense_id]
                   ELSE [op |-> "update", user_id |-> user_id,
                         status |-> 200, id |-> expense_id,
                         body |-> store'[expense_id]]
        /\ UNCHANGED next_id

(* delete_expense that reports success without the delete reaching the    *)
(* store.                                                                  *)
service_delete_expense_NoCommit(s, expense_id, user_id) == s

(* ExpenseService.delete_expense + route delete_expense. *)
service_delete_expense(s, expense_id, user_id) ==
    IF IsNone(get_expense_by_id(s, expense_id, user_id)) THEN s
    ELSE [i \in DOMAIN s \ {expense_id} |-> s[i]]

delete_expense(cap, U) ==
    \E user_id \in U, expense_id \in 1..cap :
        LET found == get_expense_by_id(store, expense_id, user_id) IN
        /\ store' = service_delete_expense(store, expense_id, user_id)
        /\ resp' = [op |-> "delete", user_id |-> user_id,
                    status |-> IF IsNone(found) THEN 404 ELSE 200,
                    id |-> expense_id]
        /\ UNCHANGED next_id

(* --------------------- category spending / summary -------------------- *)

MatchingIds(s, user_id, start_date, end_date) ==
    {i \in OwnedIds(s, user_id) :
        InWindow(s[i].expense_date, start_date, end_date)}

(* SELECT category, sum(amount), count(id) ... GROUP BY category *)
CategoryRows(s, ids) ==
    {[category      |-> c,
      total_amount  |-> SumAmount(s, {i \in ids : s[i].category = c}),
      expense_count |-> Cardinality({i \in ids : s[i].category = c})] :
        c \in {s[i].category : i \in ids}}

(* ORDER BY total_amount DESC: every arrangement of the rows that is       *)
(* non-increasing in the key; rows with equal keys come in any order.      *)
RECURSIVE OrderByTotalDesc(_)
OrderByTotalDesc(rows) ==
    IF rows = {} THEN {<<>>}
    ELSE UNION {{<<r>> \o t : t \in OrderByTotalDesc(rows \ {r})} :
                  r \in {x \in rows :
                           \A y \in rows : y.total_amount <= x.total_amount}}

(* ExpenseService.get_spending_by_category: the possible results, each a   *)
(* list of CategorySpendingModel with total_amount = float(row.total).     *)
get_spending_by_category(s, user_id, start_date, end_date) ==
    LET rows == CategoryRows(s, MatchingIds(s, user_id, start_date, end_date))
    IN  {[k \in DOMAIN o |->
            [category      |-> o[k].category,
             total_amount  |-> Float(o[k].total_amount),
             expense_count |-> o[k].expense_count]] :
          o \in OrderByTotalDesc(rows)}

(* CategorySpendingModel.serialize_decimal *)
CategorySpendingModel(m) ==
    [category      |-> m.category,
     total_amount  |-> Round2(m.total_amount),
     expense_count |-> m.expense_count]

DumpCategorySpending(list) ==
    [k \in DOMAIN list |-> CategorySpendingModel(list[k])]

(* get_spending_summary whose totals query forgets the date filters. *)
get_spending_summary_NoWindow(s, user_id, start_date, end_date) ==
    LET ids   == OwnedIds(s, user_id)
        total == IF ids = {} THEN None ELSE Some(SumAmount(s, ids))
        count == Cardinality(ids)
    IN  {[total_spending     |-> IF ~IsNone(total) /\ total[1] # 0
                                 THEN Float(total[1]) ELSE FloatZero,
          expense_count      |-> IF count # 0 THEN count ELSE 0,
          category_breakdown |-> b,
          start_date         |-> start_date,
          end_date           |-> end_date] :
          b \in get_spending_by_category(s, user_id, start_date, end_date)}

(* The total_statement of get_spending_summary and what is made of its     *)
(* row: total_spending and expense_count.                                  *)
SpendingTotals(s, user_id, start_date, end_date) ==
    LET ids   == MatchingIds(s, user_id, start_date, end_date)
        total == IF ids = {} THEN None ELSE Some(SumAmount(s, ids))
        count == Cardinality(ids)
    IN  [total_spending |-> IF ~IsNone(total) /\ total[1] # 0
                            THEN Float(total[1]) ELSE FloatZero,
         expense_count  |-> IF count # 0 THEN count ELSE 0]

(* ExpenseService.get_spending_summary: the overall totals are one query,  *)
(* the breakdown a second one; here both read the same store s.            *)
get_spending_summary(s, user_id, start_date, end_date) ==
    LET totals == SpendingTotals(s, user_id, start_date, end_date)
    IN  {[total_spending     |-> totals.total_spending,
          expense_count      |-> totals.expense_count,
          category_breakdown |-> b,
          start_date         |-> start_date,
          end_date           |-> end_date] :
          b \in get_spending_by_category(s, user_id, start_date, end_date)}

(* SpendingSummaryModel that drops an unset window bound's partner. *)
SpendingSummaryModel_EchoStartOnly(m) ==
    [total_spending     |-> Round2(m.total_spending),
     expense_count      |-> m.expense_count,
     category_breakdown |-> DumpCategorySpending(m.category_breakdown),
     start_date         |-> m.start_date,
     end_date           |-> m.start_date]

(* SpendingSummaryModel serialisers *)
SpendingSummaryModel(m) ==
    [total_spending     |-> Round2(m.total_spending),
     expense_count      |-> m.expense_count,
     category_breakdown |-> DumpCategorySpending(m.category_breakdown),
     start_date         |-> m.start_date,
     end_date           |-> m.end_date]

(* A read request leaves the store alone. *)
Respond(r) ==
    /\ resp' = r
    /\ UNCHANGED <<store, next_id>>

(* route get_spending_by_category *)
route_spending_by_category(U, W) ==
    \E user_id \in U, w \in W :
      LET start_date == w[1]
          end_date   == w[2] IN
      \E r \in get_spending_by_category(store, user_id, start_date, end_date) :
        Respond([op |-> "by_category", user_id |-> user_id, status |-> 200,
                 req |-> [start_date |-> start_date, end_date |-> end_date],
                 body |-> DumpCategorySpending(r)])

(* route get_spending_summary *)
route_spending_summary(U, W) ==
    \E user_id \in U, w \in W :
      LET start_date == w[1]
          end_date   == w[2] IN
      \E r \in get_spending_summary(store, user_id, start_date, end_date) :
        Respond([op |-> "summary", user_id |-> user_id, status |-> 200,
                 req |-> [start_date |-> start_date, end_date |-> end_date],
                 body |-> SpendingSummaryModel(r)])


(* -------------------------- monthly statistics ------------------------ *)

(* MonthIds that matches the year only. *)
MonthIds_YearOnly(s, user_id, year, month) ==
    {i \in OwnedIds(s, user_id) : Year(s[i].expense_date) = year}

MonthIds(s, user_id, year, month) ==
    {i \in OwnedIds(s, user_id) :
        Year(s[i].expense_date) = year /\ Month(s[i].expense_date) = month}

(* ... ORDER BY category_total DESC LIMIT 1: the first row of any          *)
(* admissible order, or no row.                                            *)
TopCategoryRows(s, ids) ==
    {IF o = <<>> THEN None ELSE Some(o[1]) :
        o \in OrderByTotalDesc(CategoryRows(s, ids))}

(* First statement of get_monthly_statistics: sum, average and count of   *)
(* the owner's expenses of the month (None for the aggregates of no row).  *)
MonthlyTotals(s, user_id, year, month) ==
    LET ids   == MonthIds(s, user_id, year, month)
        count == Cardinality(ids)
    IN  [total   |-> IF ids = {} THEN None ELSE Some(SumAmount(s, ids)),
         average |-> IF ids = {} THEN None
                     ELSE Some(Ratio(SumAmount(s, ids), 100 * count)),
         count   |-> count]

(* The dict get_monthly_statistics returns for the two statements' rows. *)
MonthlyStatisticsDict(year, month, stats, top) ==
    [period              |-> IntToStr(year) \o <<"-">> \o ZeroPad(month, 2),
     total_spending      |-> IF ~IsNone(stats.total) /\ stats.total[1] # 0
                             THEN Float(stats.total[1]) ELSE FloatZero,
     average_expense     |-> IF ~IsNone(stats.average) /\ stats.average[1].n # 0
                             THEN stats.average[1] ELSE FloatZero,
     expense_count       |-> IF stats.count # 0 THEN stats.count ELSE 0,
     top_category        |-> IF IsNone(top) THEN None
                             ELSE Some(top[1].category),
     top_category_amount |-> IF IsNone(top) THEN None
                             ELSE Some(Float(top[1].total_amount))]

(* ExpenseService.get_monthly_statistics: the possible result dicts. *)
get_monthly_statistics(s, user_id, year, month) ==
    {MonthlyStatisticsDict(year, month,
                           MonthlyTotals(s, user_id, year, month), top) :
       top \in TopCategoryRows(s, MonthIds(s, user_id, year, month))}

(* ExpenseStatisticsModel.serialize_top_amount:                            *)
(*   round(float(value), 2) if value else None                             *)
serialize_top_amount(value) ==
    IF ~IsNone(value) /\ FloatTruthy(value[1])
    THEN Some(Round2(value[1])) ELSE None

(* ExpenseStatisticsModel built from the statistics dict, as serialised. *)
ExpenseStatisticsModel(m) ==
    [period              |-> m.period,
     total_spending      |-> Round2(m.total_spending),
     average_expense     |-> Round2(m.average_expense),
     expense_count       |-> m.expense_count,
     top_category        |-> m.top_category,
     top_category_amount |-> serialize_top_amount(m.top_category_amount)]

(* route get_monthly_statistics; (year, month) have passed validation. *)
route_monthly_statistics(U, YM) ==
    \E user_id \in U, ym \in YM :
      \E r \in get_monthly_statistics(store, user_id, ym[1], ym[2]) :
        Respond([op |-> "monthly", user_id |-> user_id, status |-> 200,
                 req |-> [year |-> ym[1], month |-> ym[2]],
                 body |-> ExpenseStatisticsModel(r)])

(* ------------------------------ time series --------------------------- *)

PeriodTypes == {"day", "week", "month", "year"}

(* BucketKey that sends "week" to a coarser grouping than the date. *)
BucketKey_WeekAsMonth(period_type, t) ==
    IF period_type = "month" \/ period_type = "week" THEN t \div 10000
    ELSE IF period_type = "year" THEN t \div 1000000
    ELSE t \div 100

(* The GROUP BY key of get_expenses_for_visualization. *)
BucketKey(period_type, t) ==
    IF period_type = "month" THEN t \div 10000
    ELSE IF period_type = "year" THEN t \div 1000000
    ELSE t \div 100

(* BucketRows without the owner condition. *)
BucketRows_AllOwners(s, user_id, period_type) ==
    LET ids == DOMAIN s
    IN  {[key           |-> k,
          total         |-> SumAmount(s, {i \in ids :
                              BucketKey(period_type, s[i].expense_date) = k}),
          expense_count |-> Cardinality({i \in ids :
                              BucketKey(period_type, s[i].expense_date) = k})] :
          k \in {BucketKey(period_type, s[i].expense_date) : i \in ids}}

(* SELECT <period>, sum(amount), count(id) ... GROUP BY <period> *)
BucketRows(s, user_id, period_type) ==
    LET ids == OwnedIds(s, user_id)
    IN  {[key           |-> k,
          total         |-> SumAmount(s, {i \in ids :
                              BucketKey(period_type, s[i].expense_date) = k}),
          expense_count |-> Cardinality({i \in ids :
                              BucketKey(period_type, s[i].expense_date) = k})] :
          k \in {BucketKey(period_type, s[i].expense_date) : i \in ids}}

(* ORDER BY key DESC; the keys of the groups are distinct. *)
RECURSIVE OrderByKeyDesc(_)
OrderByKeyDesc(rows) ==
    IF rows = {} THEN <<>>
    ELSE LET r == CHOOSE x \in rows : \A y \in rows : y.key <= x.key
         IN  <<r>> \o OrderByKeyDesc(rows \ {r})

Limit(seq, n) == SubSeq(seq, 1, IF Len(seq) < n THEN Len(seq) ELSE n)

PeriodLabel(period_type, key) ==
    IF period_type = "month"
    THEN IntToStr(key \div 100) \o <<"-">> \o ZeroPad(key % 100, 2)
    ELSE IF period_type = "year" THEN IntToStr(key)
    ELSE ZeroPad(key \div 10000, 4) \o <<"-">>
         \o ZeroPad((key \div 100) % 100, 2) \o <<"-">> \o ZeroPad(key % 100, 2)

(* DataPoints without the reversal: rows stay most recent first. *)
DataPoints_NotReversed(period_type, rows) ==
    [k \in DOMAIN rows |->
        LET row == rows[k]
        IN  [key           |-> row.key,
             period        |-> PeriodLabel(period_type, row.key),
             total_amount  |-> IF row.total # 0
                               THEN Float(row.total) ELSE FloatZero,
             expense_count |-> IF row.expense_count # 0
                               THEN row.expense_count ELSE 0]]

(* The loop over reversed(rows) building the ChartDataPointModel list. *)
DataPoints(period_type, rows) ==
    [k \in DOMAIN rows |->
        LET row == rows[Len(rows) + 1 - k]
        IN  [key           |-> row.key,
             period        |-> PeriodLabel(period_type, row.key),
             total_amount  |-> IF row.total # 0
                               THEN Float(row.total) ELSE FloatZero,
             expense_count |-> IF row.expense_count # 0
                               THEN row.expense_count ELSE 0]]

(* ExpenseService.get_expenses_for_visualization *)
get_expenses_for_visualization(s, user_id, period_type, limit) ==
    DataPoints(period_type,
               Limit(OrderByKeyDesc(BucketRows(s, user_id, period_type)),
                     limit))

(* ChartDataPointModel.serialize_amount *)
ChartDataPointModel(m) ==
    [period        |-> m.period,
     total_amount  |-> Round2(m.total_amount),
     expense_count |-> m.expense_count]

VisualizationResponse(period_type, data_points, total_spending) ==
    [period_type      |-> period_type,
     data_points      |-> [k \in DOMAIN data_points |->
                              ChartDataPointModel(data_points[k])],
     total_periods    |-> Len(data_points),
     total_spending   |-> Round2(total_spending),
     average_spending |->
         Round2(IF Len(data_points) # 0
                THEN FloatDiv(total_spending, Ratio(Len(data_points), 1))
                ELSE FloatZero)]

(* get_visualization_data without the period_type check: every value goes *)
(* on to the service.                                                      *)
route_visualization_data_NoPeriodCheck(U, P, L) ==
    \E user_id \in U, period_type \in P, limit \in L :
      \E data_points \in {get_expenses_for_visualization(
                              store, user_id, period_type, limit)} :
        Respond([op |-> "visualization", user_id |-> user_id,
                 status |-> 200,
                 req |-> [period_type |-> period_type, limit |-> limit],
                 body |-> VisualizationResponse(
                            period_type, data_points,
                            FloatSum([k \in DOMAIN data_points |->
                                        data_points[k].total_amount]))])

(* route get_visualization_data *)
route_visualization_data(U, P, L) ==
    \E user_id \in U, period_type \in P, limit \in L :
        IF period_type \notin PeriodTypes
        THEN Respond([op |-> "visualization", user_id |-> user_id,
                      status |-> 400,
                      req |-> [period_type |-> period_type, limit |-> limit]])
        ELSE
          \E data_points \in {get_expenses_for_visualization(
                                  store, user_id, period_type, limit)} :
            Respond([op |-> "visualization", user_id |-> user_id,
                     status |-> 200,
                     req |-> [period_type |-> period_type, limit |-> limit],
                     body |-> VisualizationResponse(
                                period_type, data_points,
                                FloatSum([k \in DOMAIN data_points |->
                                            data_points[k].total_amount]))])

(* ----------------------------- category chart ------------------------- *)

(* get_category_chart_data that leaves the share as a fraction of 1. *)
get_category_chart_data_Fraction(s, user_id, start_date, end_date) ==
    {LET total_spending ==
             FloatSum([k \in DOMAIN category_spending |->
                         category_spending[k].total_amount])
     IN  [k \in DOMAIN category_spending |->
            [category      |-> category_spending[k].category,
             total_amount  |-> category_spending[k].total_amount,
             expense_count |-> category_spending[k].expense_count,
             percentage    |->
                 IF total_spending.n > 0
                 THEN FloatDiv(category_spending[k].total_amount,
                               total_spending)
                 ELSE FloatZero]] :
       category_spending \in
           get_spending_by_category(s, user_id, start_date, end_date)}

(* ExpenseService.get_category_chart_data: the possible results. *)
get_category_chart_data(s, user_id, start_date, end_date) ==
    {LET total_spending ==
             FloatSum([k \in DOMAIN category_spending |->
                         category_spending[k].total_amount])
     IN  [k \in DOMAIN category_spending |->
            [category      |-> category_spending[k].category,
             total_amount  |-> category_spending[k].total_amount,
             expense_count |-> category_spending[k].expense_count,
             percentage    |->
                 IF total_spending.n > 0
                 THEN FloatMulInt(FloatDiv(category_spending[k].total_amount,
                                           total_spending), 100)
                 ELSE FloatZero]] :
       category_spending \in
           get_spending_by_category(s, user_id, start_date, end_date)}

(* CategoryChartDataModel.serialize_amounts *)
CategoryChartDataModel(m) ==
    [category      |-> m.category,
     total_amount  |-> Round2(m.total_amount),
     expense_count |-> m.expense_count,
     percentage    |-> Round2(m.percentage)]

(* route get_category_chart_data with CategoryChartResponseModel *)
CategoryChartResponseModel(categories) ==
    [categories     |-> [k \in DOMAIN categories |->
                            CategoryChartDataModel(categories[k])],
     total_spending |-> Round2(FloatSum([k \in DOMAIN categories |->
                                           categories[k].total_amount])),
     total_expenses |-> IntSum([k \in DOMAIN categories |->
                                  categories[k].expense_count])]

route_category_chart_data(U, W) ==
    \E user_id \in U, w \in W :
      LET start_date == w[1]
          end_date   == w[2] IN
      \E categories \in
             get_category_chart_data(store, user_id, start_date, end_date) :
        Respond([op |-> "category_chart", user_id |-> user_id, status |-> 200,
                 req |-> [start_date |-> start_date, end_date |-> end_date],
                 body |-> CategoryChartResponseModel(categories)])

(* ------------------------------ get and list -------------------------- *)

ExpenseResponseModel(s, i) ==
    [id           |-> i,
     user_id      |-> s[i].user_id,
     title        |-> s[i].title,
     amount       |-> s[i].amount,
     category     |-> s[i].category,
     description  |-> s[i].description,
     expense_date |-> s[i].expense_date]

(* route get_expense *)
route_get_expense(cap, U) ==
    \E user_id \in U, expense_id \in 1..cap :
        LET expense == get_expense_by_id(store, expense_id, user_id) IN
        IF IsNone(expense)
        THEN Respond([op |-> "get", user_id |-> user_id, status |-> 404,
                      req |-> [expense_id |-> expense_id]])
        ELSE Respond([op |-> "get", user_id |-> user_id, status |-> 200,
                      req |-> [expense_id |-> expense_id],
                      body |-> ExpenseResponseModel(store, expense[1])])

UpperCase ==
    <<"A", "B", "C", "D", "E", "F", "G", "H", "I", "J", "K", "L", "M",
      "N", "O", "P", "Q", "R", "S", "T", "U", "V", "W", "X", "Y", "Z">>

LowerCase ==
    <<"a", "b", "c", "d", "e", "f", "g", "h", "i", "j", "k", "l", "m",
      "n", "o", "p", "q", "r", "s", "t", "u", "v", "w", "x", "y", "z">>

Lower(c) ==
    IF \E i \in DOMAIN UpperCase : UpperCase[i] = c
    THEN LowerCase[CHOOSE i \in DOMAIN UpperCase : UpperCase[i] = c]
    ELSE c

(* text ILIKE pattern: "%" matches any run, "_" any one character, every   *)
(* other character itself without regard to case.                          *)
RECURSIVE ILike(_, _)
ILike(text, pattern) ==
    IF pattern = <<>> THEN text = <<>>
    ELSE IF Head(pattern) = "%"
    THEN ILike(text, Tail(pattern))
         \/ (text # <<>> /\ ILike(Tail(text), pattern))
    ELSE IF text = <<>> THEN FALSE
    ELSE /\ (Head(pattern) = "_" \/ Lower(Head(pattern)) = Lower(Head(text)))
         /\ ILike(Tail(text), Tail(pattern))

(* The WHERE clause of get_user_expenses. *)
ListIds(s, user_id, category, start_date, end_date, search) ==
    {i \in OwnedIds(s, user_id) :
        /\ (IsNone(category) \/ s[i].category = category[1])
        /\ InWindow(s[i].expense_date, start_date, end_date)
        /\ (IsNone(search) \/ search[1] = <<>>
            \/ LET search_pattern == <<"%">> \o search[1] \o <<"%">>
               IN  \/ ILike(s[i].title, search_pattern)
                   \/ (~IsNone(s[i].description)
                       /\ ILike(s[i].description[1], search_pattern)))}

(* ORDER BY expense_date ascending. *)
RECURSIVE OrderByDateDesc_Ascending(_, _)
OrderByDateDesc_Ascending(s, ids) ==
    IF ids = {} THEN {<<>>}
    ELSE UNION {{<<i>> \o t : t \in OrderByDateDesc_Ascending(s, ids \ {i})} :
                  i \in {x \in ids : \A y \in ids :
                           s[y].expense_date >= s[x].expense_date}}

(* ORDER BY expense_date DESC: expenses with equal dates in any order. *)
RECURSIVE OrderByDateDesc(_, _)
OrderByDateDesc(s, ids) ==
    IF ids = {} THEN {<<>>}
    ELSE UNION {{<<i>> \o t : t \in OrderByDateDesc(s, ids \ {i})} :
                  i \in {x \in ids : \A y \in ids :
                           s[y].expense_date <= s[x].expense_date}}

(* OFFSET skip LIMIT limit *)
OffsetLimit(seq, skip, limit) ==
    IF skip >= Len(seq) THEN <<>>
    ELSE SubSeq(seq, skip + 1,
                IF skip + limit < Len(seq) THEN skip + limit ELSE Len(seq))

(* ExpenseService.get_user_expenses: the possible (expenses, total_count). *)
get_user_expenses(s, user_id, skip, limit, category, start_date, end_date, search) ==
    LET ids == ListIds(s, user_id, category, start_date, end_date, search)
    IN  {[expenses    |-> OffsetLimit(o, skip, limit),
          total_count |-> Cardinality(ids)] : o \in OrderByDateDesc(s, ids)}

(* math.ceil(x) of a float x *)
Ceil(x) == -((-x.n) \div x.d)

(* TotalPages by floor division plus one. *)
TotalPages_FloorPlusOne(total_count, page_size) ==
    IF total_count > 0 THEN (total_count \div page_size) + 1 ELSE 0

(* math.ceil(total_count / page_size) if total_count > 0 else 0 *)
TotalPages(total_count, page_size) ==
    IF total_count > 0
    THEN Ceil(FloatDiv(Ratio(total_count, 1), Ratio(page_size, 1)))
    ELSE 0

(* route get_expenses; page and page_size have passed validation. *)
route_get_expenses(U, P, PS, C, W, S) ==
    \E user_id \in U, page \in P, page_size \in PS, category \in C,
       w \in W, search \in S :
      LET start_date == w[1]
          end_date   == w[2]
          skip       == (page - 1) * page_size IN
      \E r \in get_user_expenses(store, user_id, skip, page_size, category,
                                 start_date, end_date, search) :
        Respond([op |-> "list", user_id |-> user_id, status |-> 200,
                 req |-> [page |-> page, page_size |-> page_size,
                          category |-> category, start_date |-> start_date,
                          end_date |-> end_date, search |-> search],
                 body |-> [expenses    |-> [k \in DOMAIN r.expenses |->
                                   ExpenseResponseModel(store, r.expenses[k])],
                           total       |-> r.total_count,
                           page        |-> page,
                           page_size   |-> page_size,
                           total_pages |-> TotalPages(r.total_count,
                                                      page_size)]])


(* ------------------------- request validation ------------------------- *)

(* The bounds the routes declare on their numeric parameters. *)
MinPage == 1

MinPageSize == 1

MaxPageSize == 100

MinLimit == 1

MaxLimit == 100

MinYear == 2000

MaxYear == 2100

MinMonth == 1

MaxMonth == 12

(* A list request as it arrives: page (ge=1) and page_size (ge=1, le=100)  *)
(* are validated before get_expenses runs; a violation is answered 422.    *)
request_get_expenses(U, P, PS, C, W, S) ==
    \E user_id \in U, page \in P, page_size \in PS, category \in C,
       w \in W, search \in S :
      IF page < MinPage \/ page_size < MinPageSize \/ page_size > MaxPageSize
      THEN Respond([op |-> "list", user_id |-> user_id, status |-> 422,
                    req |-> [page |-> page, page_size |-> page_size,
                             category |-> category, start_date |-> w[1],
                             end_date |-> w[2], search |-> search]])
      ELSE route_get_expenses({user_id}, {page}, {page_size}, {category},
                              {w}, {search})

(* A time-series request as it arrives: limit (ge=1, le=100) is validated  *)
(* before get_visualization_data runs; period_type is a free string that   *)
(* the route body checks itself.                                           *)
request_visualization_data(U, P, L) ==
    \E user_id \in U, period_type \in P, limit \in L :
      IF limit < MinLimit \/ limit > MaxLimit
      THEN Respond([op |-> "visualization", user_id |-> user_id,
                    status |-> 422,
                    req |-> [period_type |-> period_type, limit |-> limit]])
      ELSE route_visualization_data({user_id}, {period_type}, {limit})

(* year and month are parameters of the path /analytics/monthly/{year}/    *)
(* {month} but are declared with Query(...).  What the framework makes of  *)
(* a path parameter declared that way depends on its release: it refuses   *)
(* the declaration when the route is registered ("Cannot use `Query` for   *)
(* path param"), so that the module fails to load and the request gets no  *)
(* answer from this route, or it binds the path values under the declared  *)
(* bounds.  Both outcomes are kept.                                        *)
PathParamDeclaredWithQuery == {"refused", "bound"}

(* A monthly-statistics request as it arrives.  Status 0 stands for no     *)
(* answer from the route.                                                  *)
request_monthly_statistics(U, Y, M) ==
    \E user_id \in U, year \in Y, month \in M,
       outcome \in PathParamDeclaredWithQuery :
      IF outcome = "refused"
      THEN Respond([op |-> "monthly", user_id |-> user_id, status |-> 0,
                    req |-> [year |-> year, month |-> month]])
      ELSE IF year < MinYear \/ year > MaxYear
              \/ month < MinMonth \/ month > MaxMonth
      THEN Respond([op |-> "monthly", user_id |-> user_id, status |-> 422,
                    req |-> [year |-> year, month |-> month]])
      ELSE route_monthly_statistics({user_id}, {<<year, month>>})


(* ------------------ summary among concurrent requests ----------------- *)

(* get_spending_summary awaits two statements in turn.  The engine is      *)
(* created without an isolation level, so each statement reads what is     *)
(* committed when it starts, and writes of other requests may commit       *)
(* between the two.  resp holds the summary request's progress; the other  *)
(* requests' answers go to their own callers.                              *)

(* First statement: sum and count over the owner's rows in the window. *)
get_spending_summary_total_statement(U, W) ==
    \E user_id \in U, w \in W :
      Respond([op |-> "summary_totals", user_id |-> user_id,
               req |-> [start_date |-> w[1], end_date |-> w[2]],
               totals |-> SpendingTotals(store, user_id, w[1], w[2])])

(* Second statement: the category breakdown, then the answer. *)
get_spending_summary_category_breakdown ==
    /\ resp.op = "summary_totals"
    /\ \E category_breakdown \in
           get_spending_by_category(store, resp.user_id,
                                    resp.req.start_date, resp.req.end_date) :
         Respond([op |-> "summary", user_id |-> resp.user_id, status |-> 200,
                  req |-> resp.req,
                  body |-> SpendingSummaryModel(
                    [total_spending     |-> resp.totals.total_spending,
                     expense_count      |-> resp.totals.expense_count,
                     category_breakdown |-> category_breakdown,
                     start_date         |-> resp.req.start_date,
                     end_date           |-> resp.req.end_date])])

(* Another request's create, update or delete committing meanwhile. *)
concurrent_create_expense(cap, U, T, A, C, D) ==
    /\ next_id <= cap
    /\ \E user_id \in U, data \in ExpenseCreateModel(T, A, C, D) :
        /\ store' = service_create_expense(store, next_id, user_id, data)
        /\ next_id' = next_id + 1
    /\ UNCHANGED resp

concurrent_update_expense(cap, U, T, A, C, D) ==
    /\ \E user_id \in U, expense_id \in 1..cap,
          update_data \in ExpenseUpdateModel(T, A, C, D) :
         store' = service_update_expense(store, expense_id, user_id,
                                         update_data)
    /\ UNCHANGED <<next_id, resp>>

concurrent_delete_expense(cap, U) ==
    /\ \E user_id \in U, expense_id \in 1..cap :
         store' = service_delete_expense(store, expense_id, user_id)
    /\ UNCHANGED <<next_id, resp>>


(* ============================ specifications ========================== *)

Users == {"u1", "u2"}

Lunch == <<"L", "u", "n", "c", "h">>

Titles == {Lunch}

(* 2024-12-31 10h, 2025-01-15 09h, 2025-02-01 00h *)
D1 == Timestamp(2024, 12, 31, 10)

D2 == Timestamp(2025, 1, 15, 9)

D4 == Timestamp(2025, 2, 1, 0)

Unbounded == <<None, None>>

(* ---- Spec: every handler, two owners ---- *)

ApiAmounts == {500}

ApiCats == {"Food", "Transport"}

ApiDates == {D1, D2}

ApiWindows == {Unbounded, <<Some(D2), None>>}

Next ==
    \/ create_expense(MaxExpenses, Users, Titles, ApiAmounts, ApiCats, ApiDates)
    \/ update_expense(MaxExpenses, Users, Titles, ApiAmounts, ApiCats, ApiDates)
    \/ delete_expense(MaxExpenses, Users)
    \/ route_get_expense(MaxExpenses, Users)
    \/ route_get_expenses(Users, {1}, {2}, {None, Some("Food")},
                          {Unbounded}, {None, Some(<<"U", "N">>)})
    \/ route_spending_by_category(Users, ApiWindows)
    \/ route_spending_summary(Users, ApiWindows)
    \/ route_monthly_statistics(Users, {<<2024, 12>>, <<2025, 1>>})
    \/ route_visualization_data(Users, {"month", "quarter"}, {1})
    \/ route_category_chart_data(Users, ApiWindows)

Spec == Init /\ [][Next]_vars


(* ---- SpecCrud: the expense lifecycle with the reads that show it ---- *)

NextCrud ==
    \/ create_expense(MaxExpenses, Users, Titles, ApiAmounts, ApiCats, ApiDates)
    \/ update_expense(MaxExpenses, Users, Titles, ApiAmounts, ApiCats, ApiDates)
    \/ delete_expense(MaxExpenses, Users)
    \/ route_get_expense(MaxExpenses, Users)
    \/ route_get_expenses(Users, {1}, {2}, {None}, {Unbounded}, {None})
    \/ route_spending_summary(Users, {Unbounded})

SpecCrud == Init /\ [][NextCrud]_vars


(* ---- SpecCategory: the category aggregates, two owners ---- *)

(* request amounts 0.004 and 0.50 *)
CatAmounts == {4, 500}

CatCats == {"Food", "Transport"}

CatDates == {D1, D2}

CatWindows == {Unbounded, <<Some(D2), Some(D2)>>}

NextCategory ==
    \/ create_expense(MaxExpenses, Users, Titles, CatAmounts, CatCats, CatDates)
    \/ update_expense(MaxExpenses, Users, Titles, CatAmounts, CatCats, CatDates)
    \/ delete_expense(MaxExpenses, Users)
    \/ route_spending_by_category(Users, CatWindows)
    \/ route_spending_summary(Users, CatWindows)

SpecCategory == Init /\ [][NextCategory]_vars


(* ---- SpecMonthly: monthly statistics, two owners ---- *)

YearMonths == {<<2024, 12>>, <<2025, 1>>, <<2025, 2>>}

NextMonthly ==
    \/ create_expense(MaxExpenses, Users, Titles, CatAmounts, CatCats, CatDates)
    \/ update_expense(MaxExpenses, Users, Titles, CatAmounts, CatCats, CatDates)
    \/ delete_expense(MaxExpenses, Users)
    \/ route_monthly_statistics(Users, YearMonths)

SpecMonthly == Init /\ [][NextMonthly]_vars

(* ---- SpecSeries: the time series, two owners, three dates ---- *)

MaxSeriesExpenses == 3

SeriesAmounts == {500}

SeriesCats == {"Food"}

SeriesDates == {D1, D2, D4}

SeriesLimits == {2}

NextSeries ==
    \/ create_expense(MaxSeriesExpenses, Users, Titles, SeriesAmounts,
                      SeriesCats, SeriesDates)
    \/ update_expense(MaxSeriesExpenses, Users, Titles, SeriesAmounts,
                      SeriesCats, SeriesDates)
    \/ delete_expense(MaxSeriesExpenses, Users)
    \/ route_visualization_data(Users, {"day", "month", "quarter"},
                                SeriesLimits)

SpecSeries == Init /\ [][NextSeries]_vars


(* ---- SpecChart: category chart over stores with one expense in each   ---- *)
(* ---- of the first n categories                                        ---- *)

MaxChartCategories == 5

(* request amounts 0.004, 0.01, 0.03 *)
ChartAmounts == {4, 10, 30}

ChartStore(n, amounts) ==
    [i \in 1..n |->
        [user_id      |-> "u1",
         title        |-> Lunch,
         amount       |-> Numeric2(amounts[i]),
         category     |-> ExpenseCategory[i],
         description  |-> None,
         expense_date |-> D1]]

InitChart ==
    /\ \E n \in 0..MaxChartCategories :
         \E amounts \in [1..n -> ChartAmounts] :
           /\ store = ChartStore(n, amounts)
           /\ next_id = n + 1
    /\ resp = NoResp

(* One chart request on the drawn store. *)
NextChart ==
    /\ resp = NoResp
    /\ route_category_chart_data({"u1"}, {Unbounded})

SpecChart == InitChart /\ [][NextChart]_vars

(* ---- SpecPages: the page count of list-expenses as a function of      ---- *)
(* ---- total_count and page_size                                        ---- *)

MaxTotalCount == 120

InitPages ==
    /\ store = <<>>
    /\ next_id = 1
    /\ \E total_count \in 0..MaxTotalCount, page_size \in MinPageSize..MaxPageSize :
         resp = [op |-> "count", total_count |-> total_count,
                 page_size |-> page_size]

(* The total_pages line of route get_expenses, applied to a count. *)
compute_total_pages ==
    /\ resp.op = "count"
    /\ resp' = [op |-> "total_pages", total_count |-> resp.total_count,
                page_size |-> resp.page_size,
                total_pages |-> TotalPages(resp.total_count, resp.page_size)]
    /\ UNCHANGED <<store, next_id>>

NextPages == compute_total_pages

SpecPages == InitPages /\ [][NextPages]_vars


(* ---- SpecValidation: requests as they arrive, valid or not ---- *)

ValAmounts == {500}

ValCats == {"Food"}

ValDates == {D2}

ValPages == {0, 1}

ValPageSizes == {0, 1, 100, 101}

ValLimits == {0, 1, 100, 101}

ValYears == {1999, 2000, 2025, 2100, 2101}

ValMonths == {0, 1, 12, 13}

NextValidation ==
    \/ create_expense(MaxExpenses, Users, Titles, ValAmounts, ValCats, ValDates)
    \/ update_expense(MaxExpenses, Users, Titles, ValAmounts, ValCats, ValDates)
    \/ delete_expense(MaxExpenses, Users)
    \/ request_get_expenses(Users, ValPages, ValPageSizes, {None},
                            {Unbounded}, {None})
    \/ request_visualization_data(Users, {"month", "quarter"}, ValLimits)
    \/ request_monthly_statistics(Users, ValYears, ValMonths)

SpecValidation == Init /\ [][NextValidation]_vars


(* ---- SpecConcurrent: a summary request among concurrent writes ---- *)

ConcAmounts == {500}

ConcCats == {"Food", "Transport"}

ConcDates == {D1}

NextConcurrent ==
    \/ concurrent_create_expense(MaxExpenses, Users, Titles, ConcAmounts,
                                 ConcCats, ConcDates)
    \/ concurrent_update_expense(MaxExpenses, Users, Titles, ConcAmounts,
                                 ConcCats, ConcDates)
    \/ concurrent_delete_expense(MaxExpenses, Users)
    \/ get_spending_summary_total_statement(Users, {Unbounded})
    \/ get_spending_summary_category_breakdown

SpecConcurrent == Init /\ [][NextConcurrent]_vars


(* ---- SpecList: list-expenses over stores of up to MaxListExpenses    ---- *)
(* ---- expenses drawn from sample records                              ---- *)

MaxListExpenses == 3

Bus == <<"B", "u", "s">>

Fun == <<"F", "u", "n">>

ListRecord(user_id, title, description, category, expense_date) ==
    [user_id      |-> user_id,
     title        |-> title,
     amount       |-> Numeric2(500),
     category     |-> category,
     description  |-> description,
     expense_date |-> expense_date]

ListRecords ==
    {ListRecord("u1", Lunch, None, "Food", D1),
     ListRecord("u1", Bus, Some(Fun), "Transport", D2),
     ListRecord("u1", Bus, None, "Food", D2),
     ListRecord("u1", Lunch, None, "Transport", D4),
     ListRecord("u2", Lunch, None, "Food", D2)}

InitList ==
    /\ \E n \in 0..MaxListExpenses :
         /\ store \in [1..n -> ListRecords]
         /\ next_id = n + 1
    /\ resp = NoResp

ListPages == {1, 2}

ListPageSizes == {1, 2}

ListCategories == {None, Some("Food")}

ListWindows == {Unbounded, <<Some(D2), Some(D2)>>}

(* no search, "UN", and "_" *)
ListSearches == {None, Some(<<"U", "N">>), Some(<<"_">>)}

(* One list request on the drawn store. *)
NextList ==
    /\ resp = NoResp
    /\ route_get_expenses({"u1"}, ListPages, ListPageSizes, ListCategories,
                          ListWindows, ListSearches)

SpecList == InitList /\ [][NextList]_vars


(* ---- SpecWeek: day and week series over stores of up to              ---- *)
(* ---- MaxWeekExpenses expenses dated within two adjacent weeks        ---- *)

MaxWeekExpenses == 3

(* Monday 2025-01-13 10h, Wednesday 2025-01-15 18h, Monday 2025-01-20 08h *)
W1 == Timestamp(2025, 1, 13, 10)

W3 == Timestamp(2025, 1, 15, 18)

W4 == Timestamp(2025, 1, 20, 8)

WeekRecords ==
    {ListRecord("u1", Lunch, None, "Food", d) : d \in {W1, D2, W3, W4}}
    \cup {ListRecord("u2", Lunch, None, "Food", D2)}

InitWeek ==
    /\ \E n \in 0..MaxWeekExpenses :
         /\ store \in [1..n -> WeekRecords]
         /\ next_id = n + 1
    /\ resp = NoResp

WeekLimits == {1, 2, 100}

(* One day or week request on the drawn store. *)
NextWeek ==
    /\ resp = NoResp
    /\ route_visualization_data(Users, {"day", "week"}, WeekLimits)

SpecWeek == InitWeek /\ [][NextWeek]_vars


(* ---- SpecPaging: a client walking the pages of one unchanged store   ---- *)

PagingPages == {1, 2, 3, 4}

PagingPageSizes == {1, 2}

(* Successive list requests of owner u1, each a query of its own. *)
NextPaging ==
    route_get_expenses({"u1"}, PagingPages, PagingPageSizes, {None},
                       {Unbounded}, {None})

SpecPaging == InitList /\ [][NextPaging]_vars


(* ---- SpecMonthlyConcurrent: the two statements of the monthly        ---- *)
(* ---- statistics interleaved with other requests' committed writes    ---- *)

(* First statement of get_monthly_statistics, on the store as committed. *)
get_monthly_statistics_stats_statement(U, YM) ==
    \E user_id \in U, ym \in YM :
      Respond([op |-> "monthly_stats", user_id |-> user_id,
               req |-> [year |-> ym[1], month |-> ym[2]],
               stats |-> MonthlyTotals(store, user_id, ym[1], ym[2])])

(* Second statement: the top category, then the answer. *)
get_monthly_statistics_top_category_statement ==
    /\ resp.op = "monthly_stats"
    /\ \E top \in TopCategoryRows(store, MonthIds(store, resp.user_id,
                                      resp.req.year, resp.req.month)) :
         Respond([op |-> "monthly", user_id |-> resp.user_id, status |-> 200,
                  req |-> resp.req,
                  body |-> ExpenseStatisticsModel(
                    MonthlyStatisticsDict(resp.req.year, resp.req.month,
                                          resp.stats, top))])

NextMonthlyConcurrent ==
    \/ concurrent_create_expense(MaxExpenses, Users, Titles, ConcAmounts,
                                 ConcCats, ConcDates)
    \/ concurrent_update_expense(MaxExpenses, Users, Titles, ConcAmounts,
                                 ConcCats, ConcDates)
    \/ concurrent_delete_expense(MaxExpenses, Users)
    \/ get_monthly_statistics_stats_statement(Users, {<<2024, 12>>})
    \/ get_monthly_statistics_top_category_statement

SpecMonthlyConcurrent == Init /\ [][NextMonthlyConcurrent]_vars


(* ================================ claims ============================== *)

(* The store changes only by a write, so every reachable store occurs in a *)
(* state whose resp is the initial one or the response to a write.  What a *)
(* claim says of all owners and parameters is evaluated in those states;   *)
(* what it says of the answer in hand, in the state holding that answer.   *)
StoreChecked == resp.op \in {"none", "create", "update", "delete"}

AllWindows(D) ==
    {<<a, b>> : a \in {None} \cup {Some(d) : d \in D},
                b \in {None} \cup {Some(d) : d \in D}}

(* The owner's expenses whose date lies in the inclusive window. *)
ExpensesInWindow(u, w) ==
    {i \in DOMAIN store :
        /\ store[i].user_id = u
        /\ (w[1] = None \/ w[1][1] <= store[i].expense_date)
        /\ (w[2] = None \/ store[i].expense_date <= w[2][1])}

(* The entries of a category list add up to the totals of a summary. *)
TotalsMatch(c, m) ==
    /\ IntSum([k \in DOMAIN c |-> c[k].total_amount]) = m.total_spending
    /\ IntSum([k \in DOMAIN c |-> c[k].expense_count]) = m.expense_count

(* C1: for every owner and window, the total_amount values reported by     *)
(* category spending add up to the summary's total_spending, and their     *)
(* expense_count values to the summary's expense_count.                    *)
C1_CategoryTotalsMatchSummary ==
    /\ StoreChecked =>
         \A u \in Users, w \in AllWindows(CatDates) :
           \A cs \in get_spending_by_category(store, u, w[1], w[2]),
              sm \in get_spending_summary(store, u, w[1], w[2]) :
             TotalsMatch(DumpCategorySpending(cs), SpendingSummaryModel(sm))
    /\ resp.op = "summary" =>
         \A cs \in get_spending_by_category(store, resp.user_id,
                       resp.req.start_date, resp.req.end_date) :
           TotalsMatch(DumpCategorySpending(cs), resp.body)

(* A summary over a bounded window that leaves out one of the owner's two  *)
(* expenses.                                                               *)
C1_Witness ==
    /\ resp.op = "summary"
    /\ resp.req.start_date = Some(D2)
    /\ resp.body.expense_count = 1
    /\ resp.body.total_spending = 50
    /\ Cardinality(OwnedIds(store, resp.user_id)) = 2

(* C7: a category-spending request repeated on an unchanged store gets the *)
(* same answer, the order of equal totals included.                        *)
C7_RepeatIsIdentical ==
    [][(/\ resp.op = "by_category"
        /\ resp'.op = "by_category"
        /\ resp'.user_id = resp.user_id
        /\ resp'.req = resp.req
        /\ store' = store) => resp'.body = resp.body]_vars

(* One entry for each category of the owner's expenses in the window, in   *)
(* non-increasing order of total.                                          *)
OneEntryPerCategory(c, u, w) ==
    LET cats == {store[i].category : i \in ExpensesInWindow(u, w)}
    IN  /\ {c[k].category : k \in DOMAIN c} = cats
        /\ Len(c) = Cardinality(cats)
        /\ \A k \in 1..(Len(c) - 1) :
             c[k].total_amount >= c[k + 1].total_amount
        /\ (ExpensesInWindow(u, w) = {} => c = <<>>)

(* C8: category spending has exactly one entry per category in which the   *)
(* owner has an expense inside the inclusive window and no other entry,    *)
(* totals non-increasing, and is the empty sequence when nothing matches.  *)
C8_OneEntryPerCategory ==
    /\ StoreChecked =>
         \A u \in Users, w \in AllWindows(CatDates) :
           \A cs \in get_spending_by_category(store, u, w[1], w[2]) :
             OneEntryPerCategory(DumpCategorySpending(cs), u, w)
    /\ resp.op = "by_category" =>
         OneEntryPerCategory(resp.body, resp.user_id,
                             <<resp.req.start_date, resp.req.end_date>>)

(* Two categories answered for a window whose upper bound is the date of   *)
(* one of the expenses.                                                    *)
C8_Witness ==
    /\ resp.op = "by_category"
    /\ resp.req.end_date = Some(D2)
    /\ Len(resp.body) = 2
    /\ resp.body[1].total_amount > resp.body[2].total_amount
    /\ \E i \in DOMAIN store : store[i].expense_date = D2

(* Zero totals and an empty breakdown when nothing matches; the window is  *)
(* echoed.                                                                 *)
EmptySummary(m, u, w) ==
    /\ m.start_date = w[1]
    /\ m.end_date = w[2]
    /\ (ExpensesInWindow(u, w) = {} =>
          /\ m.total_spending = 0
          /\ m.expense_count = 0
          /\ m.category_breakdown = <<>>)

(* C9: a summary for an owner with no expense in the window reports total  *)
(* 0.0, count 0 and an empty breakdown; every summary echoes the requested *)
(* start_date and end_date.                                                *)
C9_EmptySummary ==
    /\ StoreChecked =>
         \A u \in Users, w \in AllWindows(CatDates) :
           \A sm \in get_spending_summary(store, u, w[1], w[2]) :
             EmptySummary(SpendingSummaryModel(sm), u, w)
    /\ resp.op = "summary" =>
         EmptySummary(resp.body, resp.user_id,
                      <<resp.req.start_date, resp.req.end_date>>)

(* An empty summary for an owner who does have an expense, outside the     *)
(* requested window.                                                       *)
C9_Witness ==
    /\ resp.op = "summary"
    /\ resp.req.start_date = Some(D2)
    /\ resp.req.end_date = Some(D2)
    /\ resp.body.expense_count = 0
    /\ resp.body.category_breakdown = <<>>
    /\ OwnedIds(store, resp.user_id) # {}

(* The period an expense date falls in, as a number that grows with time. *)
PeriodOf(period_type, t) ==
    IF period_type = "year" THEN Year(t)
    ELSE IF period_type = "month" THEN Year(t) * 100 + Month(t)
    ELSE Date(t)

OwnerPeriods(u, pt) ==
    {PeriodOf(pt, store[i].expense_date) :
       i \in {j \in DOMAIN store : store[j].user_id = u}}

Min(a, b) == IF a < b THEN a ELSE b

(* C3: the time series holds the min(limit, number of non-empty periods)   *)
(* most recent periods of the owner, oldest first: strictly ascending, at  *)
(* most limit long, every bucket with at least one expense, and no omitted *)
(* period more recent than a returned one.                                 *)
C3_MostRecentAscending ==
    /\ StoreChecked =>
         \A u \in Users, pt \in PeriodTypes, limit \in {1, 2, 3, 100} :
           LET dp       == get_expenses_for_visualization(store, u, pt, limit)
               returned == {dp[k].key : k \in DOMAIN dp}
           IN  /\ Len(dp) = Min(limit, Cardinality(OwnerPeriods(u, pt)))
               /\ Len(dp) <= limit
               /\ \A k \in 1..(Len(dp) - 1) : dp[k].key < dp[k + 1].key
               /\ \A k \in DOMAIN dp : dp[k].expense_count >= 1
               /\ returned \subseteq OwnerPeriods(u, pt)
               /\ \A p \in OwnerPeriods(u, pt) \ returned :
                    \A r \in returned : p < r
    /\ (resp.op = "visualization" /\ resp.status = 200) =>
         /\ Len(resp.body.data_points)
              = Min(resp.req.limit,
                    Cardinality(OwnerPeriods(resp.user_id,
                                             resp.req.period_type)))
         /\ \A k \in DOMAIN resp.body.data_points :
              resp.body.data_points[k].expense_count >= 1

(* Two of three months returned, the oldest month left out. *)
C3_Witness ==
    /\ resp.op = "visualization"
    /\ resp.status = 200
    /\ resp.req.period_type = "month"
    /\ resp.req.limit = 2
    /\ resp.body.total_periods = 2
    /\ resp.body.data_points[1].period = <<"2", "0", "2", "5", "-", "0", "1">>
    /\ resp.body.data_points[2].period = <<"2", "0", "2", "5", "-", "0", "2">>
    /\ {store[i].expense_date : i \in OwnedIds(store, resp.user_id)}
           = {D1, D2, D4}

(* The owner's expenses dated within the calendar month. *)
ExpensesInMonth(u, ym) ==
    {i \in DOMAIN store :
        /\ store[i].user_id = u
        /\ store[i].expense_date >= Timestamp(ym[1], ym[2], 1, 0)
        /\ store[i].expense_date <= Timestamp(ym[1], ym[2], 31, 23)}

MonthLabel(ym) ==
    IF ym = <<2024, 12>> THEN <<"2", "0", "2", "4", "-", "1", "2">>
    ELSE IF ym = <<2025, 1>> THEN <<"2", "0", "2", "5", "-", "0", "1">>
    ELSE <<"2", "0", "2", "5", "-", "0", "2">>

EmptyMonth(m, ym) ==
    /\ m.total_spending = 0
    /\ m.average_expense = 0
    /\ m.expense_count = 0
    /\ m.top_category = None
    /\ m.top_category_amount = None
    /\ m.period = MonthLabel(ym)

(* C4: monthly statistics for a month in which the owner has no expense    *)
(* report total 0.0, average 0.0, count 0, no top category and no top      *)
(* amount, under the label "{year}-{month:02d}", whatever other months and *)
(* other owners hold.                                                      *)
C4_EmptyMonth ==
    /\ StoreChecked =>
         \A u \in Users, ym \in YearMonths :
           ExpensesInMonth(u, ym) = {} =>
             \A st \in get_monthly_statistics(store, u, ym[1], ym[2]) :
               EmptyMonth(ExpenseStatisticsModel(st), ym)
    /\ (resp.op = "monthly"
        /\ ExpensesInMonth(resp.user_id,
                           <<resp.req.year, resp.req.month>>) = {}) =>
         EmptyMonth(resp.body, <<resp.req.year, resp.req.month>>)

(* An empty January 2025 for an owner with a December 2024 expense while   *)
(* the other owner has a January 2025 expense.                             *)
C4_Witness ==
    /\ resp.op = "monthly"
    /\ resp.req = [year |-> 2025, month |-> 1]
    /\ resp.body.expense_count = 0
    /\ resp.body.top_category = None
    /\ \E i \in DOMAIN store :
         store[i].user_id = resp.user_id /\ store[i].expense_date = D1
    /\ \E i \in DOMAIN store :
         store[i].user_id # resp.user_id /\ store[i].expense_date = D2

MonthCategoryTotal(u, ym, c) ==
    SumAmount(store, {i \in ExpensesInMonth(u, ym) : store[i].category = c})

(* C5: when the owner has an expense in the month, top_category is a       *)
(* category of that month whose summed amount is >= that of every other    *)
(* category, and top_category_amount is that sum, not null.                *)
C5_TopCategory ==
    (resp.op = "monthly"
     /\ ExpensesInMonth(resp.user_id, <<resp.req.year, resp.req.month>>) # {})
    => LET u  == resp.user_id
           ym == <<resp.req.year, resp.req.month>>
       IN  /\ resp.body.top_category # None
           /\ resp.body.top_category_amount # None
           /\ resp.body.top_category_amount[1]
                = MonthCategoryTotal(u, ym, resp.body.top_category[1])
           /\ \A c \in Categories :
                MonthCategoryTotal(u, ym, c)
                  <= MonthCategoryTotal(u, ym, resp.body.top_category[1])

(* The sum of the reported percentages, in hundredths of a percent. *)
PercentageSum(body) ==
    IntSum([k \in DOMAIN body.categories |-> body.categories[k].percentage])

Abs(x) == IF x < 0 THEN -x ELSE x

(* C2 as stated: the reported percentages add up to 100.00 within 0.01     *)
(* when the grand total is positive, and are all 0.0 when it is 0.         *)
C2_PercentagesWithinOneHundredth ==
    resp.op = "category_chart" =>
      IF resp.body.total_spending > 0
      THEN Abs(PercentageSum(resp.body) - 10000) <= 1
      ELSE \A k \in DOMAIN resp.body.categories :
             resp.body.categories[k].percentage = 0

(* C2 as amended: the reported percentages add up to 100.00 within 0.005   *)
(* per reported category when the grand total is positive, and are all 0.0 *)
(* when it is 0.                                                           *)
C2_PercentagesWithinHalfPerCategory ==
    resp.op = "category_chart" =>
      IF resp.body.total_spending > 0
      THEN 2 * Abs(PercentageSum(resp.body) - 10000)
             <= Len(resp.body.categories)
      ELSE \A k \in DOMAIN resp.body.categories :
             resp.body.categories[k].percentage = 0

(* Five categories with totals 0.01, 0.01, 0.01, 0.01 and 0.03: the shares *)
(* 14.29 four times and 42.86 add up to 100.02.                            *)
C2_Witness ==
    /\ resp.op = "category_chart"
    /\ Len(resp.body.categories) = 5
    /\ resp.body.total_spending = 7
    /\ PercentageSum(resp.body) = 10002

(* C6: total_pages is the ceiling of total_count / page_size, 0 for a      *)
(* total_count of 0, and 3 for total_count 101 with page_size 50.          *)
C6_TotalPagesIsCeiling ==
    resp.op = "total_pages" =>
      /\ (resp.total_count = 0 => resp.total_pages = 0)
      /\ resp.total_pages * resp.page_size >= resp.total_count
      /\ (resp.total_count > 0 =>
            (resp.total_pages - 1) * resp.page_size < resp.total_count)
      /\ (resp.total_count = 101 /\ resp.page_size = 50
            => resp.total_pages = 3)

C6_Witness ==
    /\ resp.op = "total_pages"
    /\ resp.total_count = 101
    /\ resp.page_size = 50
    /\ resp.total_pages = 3

(* The store with every record of the other owners taken out. *)
OwnerView(s, u) == [i \in OwnedIds(s, u) |-> s[i]]

(* Every answer the read operations can give the owner on store s. *)
ReadResults(s, u) ==
    [get |->
        [id \in 1..MaxExpenses |->
            LET e == get_expense_by_id(s, id, u)
            IN  IF IsNone(e) THEN None
                ELSE Some(ExpenseResponseModel(s, e[1]))],
     list |->
        [q \in {1, 2} \X {None, Some("Food")} \X ApiWindows
               \X {None, Some(<<"U", "N">>)} |->
            {[expenses |-> [k \in DOMAIN r.expenses |->
                              ExpenseResponseModel(s, r.expenses[k])],
              total    |-> r.total_count] :
               r \in get_user_expenses(s, u, (q[1] - 1) * 1, 1, q[2],
                                       q[3][1], q[3][2], q[4])}],
     by_category |->
        [w \in ApiWindows |->
            get_spending_by_category(s, u, w[1], w[2])],
     summary |->
        [w \in ApiWindows |->
            get_spending_summary(s, u, w[1], w[2])],
     monthly |->
        [ym \in YearMonths |-> get_monthly_statistics(s, u, ym[1], ym[2])],
     visualization |->
        [q \in PeriodTypes \X {1, 2} |->
            get_expenses_for_visualization(s, u, q[1], q[2])],
     category_chart |->
        [w \in ApiWindows |->
            get_category_chart_data(s, u, w[1], w[2])]]

(* C10: what a read or aggregate operation answers an owner depends on     *)
(* that owner's records only (the store with all other owners' records     *)
(* removed gives the same answers), and a returned expense is the          *)
(* requester's.                                                            *)
C10_OwnerIsolation ==
    /\ StoreChecked =>
         \A u \in Users :
           ReadResults(store, u) = ReadResults(OwnerView(store, u), u)
    /\ (resp.op = "get" /\ resp.status = 200
          => resp.body.user_id = resp.user_id)
    /\ (resp.op = "list" =>
          \A k \in DOMAIN resp.body.expenses :
            resp.body.expenses[k].user_id = resp.user_id)

(* A listing that returns the requester's one expense while the other      *)
(* owner holds an expense of the same category and date.                   *)
C10_Witness ==
    /\ resp.op = "list"
    /\ resp.req.category = None
    /\ resp.req.search = None
    /\ resp.body.total = 1
    /\ Len(resp.body.expenses) = 1
    /\ \E i \in DOMAIN store :
         /\ store[i].user_id # resp.user_id
         /\ store[i].category = resp.body.expenses[1].category
         /\ store[i].expense_date = resp.body.expenses[1].expense_date


(* The expense id a get, update or delete request names. *)
RequestId(r) == IF r.op = "get" THEN r.req.expense_id ELSE r.id

(* C11: get, update and delete of an id that does not exist and of an id   *)
(* that belongs to another owner both end in the same NotFound outcome     *)
(* (status 404, no expense in the answer), and leave the store as it was.  *)
C11_NotFoundSameAndHarmless ==
    [][(/\ resp'.op \in {"get", "update", "delete"}
        /\ RequestId(resp') \notin OwnedIds(store, resp'.user_id))
       => /\ resp'.status = 404
          /\ "body" \notin DOMAIN resp'
          /\ store' = store
          /\ next_id' = next_id]_vars

(* An update of the other owner's expense, answered NotFound. *)
C11_Witness ==
    /\ resp.op = "update"
    /\ resp.status = 404
    /\ resp.id \in DOMAIN store
    /\ store[resp.id].user_id # resp.user_id

(* C15: every stored expense has an amount > 0 at the store's two-decimal  *)
(* precision and a category of the 13-value enumeration.                   *)
C15_PositiveAmountKnownCategory ==
    \A i \in DOMAIN store :
      /\ store[i].amount > 0
      /\ store[i].category \in Categories
      /\ Cardinality(Categories) = 13

(* A valid value for each updatable field. *)
UpdateValue(k) ==
    IF k = "title" THEN Bus
    ELSE IF k = "amount" THEN 500
    ELSE IF k = "category" THEN "Transport"
    ELSE D2

(* Request bodies ExpenseUpdateModel accepts: any subset of the updatable  *)
(* fields provided, each with its sample value.                            *)
ValidUpdateRequests ==
    {[k \in K |-> UpdateValue(k)] :
       K \in SUBSET {"title", "amount", "category", "expense_date"}}

(* What update_expense makes of the store for request d on expense id:     *)
(* provided fields take the request's values, everything else stays.       *)
OnlyProvidedChanged(s2, id, d) ==
    /\ DOMAIN s2 = DOMAIN store
    /\ \A j \in DOMAIN store \ {id} : s2[j] = store[j]
    /\ \A k \in DOMAIN store[id] \ DOMAIN d : s2[id][k] = store[id][k]
    /\ \A k \in DOMAIN d : s2[id][k] = StoredValue(k, d[k])

C17_DeletionIsPermanent ==
    [][/\ \A i \in 1..(next_id - 1) :
            i \notin DOMAIN store => i \notin DOMAIN store'
       /\ (resp'.op = "delete" /\ resp'.status = 200) =>
            /\ resp'.id \in DOMAIN store
            /\ store' = [i \in DOMAIN store \ {resp'.id} |-> store[i]]
       /\ (/\ resp'.op \in {"get", "update", "delete"}
           /\ RequestId(resp') \notin DOMAIN store) => resp'.status = 404
       /\ resp'.op = "list" =>
            \A k \in DOMAIN resp'.body.expenses :
              resp'.body.expenses[k].id \in DOMAIN store'
       /\ resp'.op = "summary" =>
            LET ids == ExpensesInWindow(resp'.user_id,
                         <<resp'.req.start_date, resp'.req.end_date>>)
            IN  /\ resp'.body.expense_count = Cardinality(ids)
                /\ resp'.body.total_spending = SumAmount(store, ids)]_vars

(* A delete answered NotFound for an id that was issued and is gone, while *)
(* the requester still holds another expense.                              *)
C17_Witness ==
    /\ resp.op = "delete"
    /\ resp.status = 404
    /\ resp.id < next_id
    /\ resp.id \notin DOMAIN store
    /\ OwnedIds(store, resp.user_id) # {}


(* C12: a time-series request whose period_type is none of day, week,      *)
(* month, year is rejected with an error status, carries no result of the  *)
(* time-series operation, and leaves the store unchanged; an answer that   *)
(* carries such a result was made for a recognised period_type.            *)
C12_UnknownPeriodTypeRejected ==
    [][resp'.op = "visualization" =>
         /\ resp'.req.period_type \notin PeriodTypes =>
              /\ resp'.status \in {400, 422}
              /\ "body" \notin DOMAIN resp'
              /\ store' = store
              /\ next_id' = next_id
         /\ "body" \in DOMAIN resp' =>
              /\ resp'.req.period_type \in PeriodTypes
              /\ resp'.body.period_type = resp'.req.period_type]_vars

(* "quarter" with a valid limit, rejected by the route body while the      *)
(* requester has an expense.                                               *)
C12_Witness ==
    /\ resp.op = "visualization"
    /\ resp.req.period_type = "quarter"
    /\ resp.req.limit = 100
    /\ resp.status = 400
    /\ OwnedIds(store, resp.user_id) # {}

(* The numeric parameters of a request are within the declared bounds. *)
InBounds(r) ==
    IF r.op = "list"
    THEN r.req.page >= 1 /\ r.req.page_size >= 1 /\ r.req.page_size <= 100
    ELSE IF r.op = "visualization"
    THEN r.req.limit >= 1 /\ r.req.limit <= 100
    ELSE /\ r.req.year >= 2000 /\ r.req.year <= 2100
         /\ r.req.month >= 1 /\ r.req.month <= 12

(* C13: a list, time-series or monthly-statistics request with a numeric   *)
(* parameter out of bounds is answered with a validation error (422) and   *)
(* carries no result of the service operation; an answer that carries such *)
(* a result was made for parameters within bounds.                         *)
C13_OutOfBoundsRejected ==
    resp.op \in {"list", "visualization", "monthly"} =>
      /\ ~InBounds(resp) => resp.status = 422 /\ "body" \notin DOMAIN resp
      /\ "body" \in DOMAIN resp => InBounds(resp)


(* C14: the total_spending and expense_count of a summary equal the sums   *)
(* of total_amount and expense_count over its own category_breakdown, also *)
(* when other requests write the owner's expenses while it runs.           *)
C14_SummaryFromOneSnapshot ==
    resp.op = "summary" =>
      TotalsMatch(resp.body.category_breakdown, resp.body)


(* sub occurs in text as a substring, without regard to case. *)
Contains(text, sub) ==
    \E i \in 0..(Len(text) - Len(sub)) :
      \A k \in 1..Len(sub) : Lower(text[i + k]) = Lower(sub[k])

(* The owner's expenses that satisfy every supplied filter of request q. *)
Filtered(u, q) ==
    {i \in DOMAIN store :
       /\ store[i].user_id = u
       /\ (q.category = None \/ store[i].category = q.category[1])
       /\ (q.start_date = None \/ q.start_date[1] <= store[i].expense_date)
       /\ (q.end_date = None \/ store[i].expense_date <= q.end_date[1])
       /\ (q.search = None
           \/ Contains(store[i].title, q.search[1])
           \/ (store[i].description # None
               /\ Contains(store[i].description[1], q.search[1])))}

(* C18: list-expenses counts in total exactly the owner's expenses that    *)
(* satisfy all supplied filters (category, inclusive date range, search    *)
(* string occurring case-insensitively in title or description), returns   *)
(* only such expenses, and as many of them as the page has room for.       *)
C18_ListMatchesFilters ==
    (resp.op = "list" /\ resp.status = 200) =>
      LET ids   == Filtered(resp.user_id, resp.req)
          skip  == (resp.req.page - 1) * resp.req.page_size
          avail == IF Cardinality(ids) > skip
                   THEN Cardinality(ids) - skip ELSE 0
      IN  /\ resp.body.total = Cardinality(ids)
          /\ \A k \in DOMAIN resp.body.expenses :
               resp.body.expenses[k].id \in ids
          /\ Len(resp.body.expenses) = Min(resp.req.page_size, avail)

(* The dates of a page are non-increasing. *)
DatesNonIncreasing(page) ==
    \A k \in 1..(Len(page) - 1) :
      store[page[k]].expense_date >= store[page[k + 1]].expense_date

(* C19: every page of list-expenses is ordered by expense_date             *)
(* non-increasing and holds at most page_size expenses, and every expense  *)
(* of page p is dated no earlier than every expense of page p+1 for the    *)
(* same filters on the same store.                                         *)
C19_PagesInDateOrder ==
    /\ StoreChecked =>
         \A u \in Users, p \in {1, 2, 3}, ps \in ListPageSizes,
            c \in ListCategories, w \in ListWindows, q \in ListSearches :
           \A r1 \in get_user_expenses(store, u, (p - 1) * ps, ps, c,
                                       w[1], w[2], q),
              r2 \in get_user_expenses(store, u, p * ps, ps, c,
                                       w[1], w[2], q) :
             /\ DatesNonIncreasing(r1.expenses)
             /\ Len(r1.expenses) <= ps
             /\ \A a \in DOMAIN r1.expenses, b \in DOMAIN r2.expenses :
                  store[r1.expenses[a]].expense_date
                    >= store[r2.expenses[b]].expense_date
    /\ (resp.op = "list" /\ resp.status = 200) =>
         /\ Len(resp.body.expenses) <= resp.req.page_size
         /\ \A k \in 1..(Len(resp.body.expenses) - 1) :
              resp.body.expenses[k].expense_date
                >= resp.body.expenses[k + 1].expense_date

(* A full first page of two expenses with different dates out of three     *)
(* that match.                                                             *)
C19_Witness ==
    /\ resp.op = "list"
    /\ resp.req.page = 1
    /\ resp.req.page_size = 2
    /\ resp.body.total = 3
    /\ Len(resp.body.expenses) = 2
    /\ resp.body.expenses[1].expense_date > resp.body.expenses[2].expense_date


TwoDigits(n) == <<Digit[(n \div 10) + 1], Digit[(n % 10) + 1]>>

FourDigits(n) == TwoDigits(n \div 100) \o TwoDigits(n % 100)

(* The label of the period a timestamp falls in: "YYYY-MM" for month,      *)
(* "YYYY" for year, the ISO date "YYYY-MM-DD" for day and week.            *)
LabelOf(period_type, t) ==
    IF period_type = "month"
    THEN FourDigits(Year(t)) \o <<"-">> \o TwoDigits(Month(t))
    ELSE IF period_type = "year" THEN FourDigits(Year(t))
    ELSE FourDigits(Year(t)) \o <<"-">> \o TwoDigits(Month(t)) \o <<"-">>
         \o TwoDigits(Date(t) % 100)

(* Every bucket reports the sum and the number of the owner's expenses     *)
(* whose date carries the bucket's label, and there is such an expense.    *)
BucketsAreExact(points, u, period_type) ==
    \A k \in DOMAIN points :
      LET ids == {i \in DOMAIN store :
                    /\ store[i].user_id = u
                    /\ LabelOf(period_type, store[i].expense_date)
                         = points[k].period}
      IN  /\ ids # {}
          /\ points[k].total_amount = SumAmount(store, ids)
          /\ points[k].expense_count = Cardinality(ids)

(* C20: each time-series bucket reports total_amount equal to the sum, and *)
(* expense_count equal to the number, of exactly the owner's expenses      *)
(* dated in the bucket's period (same year and month, same year, or same   *)
(* calendar date for day and week), under the label "YYYY-MM", "YYYY" or   *)
(* the ISO date.                                                           *)
C20_BucketsExact ==
    /\ StoreChecked =>
         \A u \in Users, pt \in PeriodTypes, limit \in {1, 2, 100} :
           LET dp == get_expenses_for_visualization(store, u, pt, limit)
           IN  BucketsAreExact([k \in DOMAIN dp |-> ChartDataPointModel(dp[k])],
                               u, pt)
    /\ (resp.op = "visualization" /\ resp.status = 200) =>
         BucketsAreExact(resp.body.data_points, resp.user_id,
                         resp.req.period_type)

(* A month bucket of two expenses of the requester while the other owner   *)
(* has an expense in the same month.                                       *)
C20_Witness ==
    /\ resp.op = "visualization"
    /\ resp.status = 200
    /\ resp.req.period_type = "month"
    /\ \E k \in DOMAIN resp.body.data_points :
         /\ resp.body.data_points[k].expense_count = 2
         /\ resp.body.data_points[k].total_amount = 100
         /\ \E i \in DOMAIN store :
              /\ store[i].user_id # resp.user_id
              /\ LabelOf("month", store[i].expense_date)
                   = resp.body.data_points[k].period


(* C21: for every owner, store and limit the week series is the day        *)
(* series: the same calendar-date buckets, labels, totals and counts in    *)
(* the same order; expenses of one week on different dates stay apart.     *)
C21_WeekIsDay ==
    /\ StoreChecked =>
         \A u \in Users, limit \in WeekLimits :
           LET week == get_expenses_for_visualization(store, u, "week", limit)
               day  == get_expenses_for_visualization(store, u, "day", limit)
           IN  [k \in DOMAIN week |-> ChartDataPointModel(week[k])]
                 = [k \in DOMAIN day |-> ChartDataPointModel(day[k])]
    /\ (/\ resp.op = "visualization"
        /\ resp.status = 200
        /\ resp.req.period_type = "week") =>
         LET day == get_expenses_for_visualization(
                        store, resp.user_id, "day", resp.req.limit)
         IN  /\ resp.body.data_points
                  = [k \in DOMAIN day |-> ChartDataPointModel(day[k])]
             /\ BucketsAreExact(resp.body.data_points, resp.user_id, "day")

(* A week request answered with two buckets for Monday and Wednesday of    *)
(* the same week, the Wednesday bucket holding two expenses.               *)
C21_Witness ==
    /\ resp.op = "visualization"
    /\ resp.status = 200
    /\ resp.req.period_type = "week"
    /\ Len(resp.body.data_points) = 2
    /\ resp.body.data_points[1].period = LabelOf("day", W1)
    /\ resp.body.data_points[2].period = LabelOf("day", D2)
    /\ resp.body.data_points[2].expense_count = 2


(* The ids listed on a page. *)
PageIds(body) == {body.expenses[k].id : k \in DOMAIN body.expenses}

(* C22: on an unchanged store, for a fixed owner, filters and page_size,   *)
(* two different pages of list-expenses never show the same expense (so    *)
(* that pages 1..total_pages show every matching expense exactly once),    *)
(* and a page beyond total_pages is empty.                                 *)
C22_PagesPartitionMatches ==
    /\ []((resp.op = "list" /\ resp.req.page > resp.body.total_pages)
            => resp.body.expenses = <<>>)
    /\ [][(/\ resp.op = "list"
           /\ resp'.op = "list"
           /\ store' = store
           /\ resp'.user_id = resp.user_id
           /\ resp'.req.page_size = resp.req.page_size
           /\ resp'.req.category = resp.req.category
           /\ resp'.req.start_date = resp.req.start_date
           /\ resp'.req.end_date = resp.req.end_date
           /\ resp'.req.search = resp.req.search
           /\ resp'.req.page # resp.req.page)
            => PageIds(resp'.body) \cap PageIds(resp.body) = {}]_vars


(* C23: in every monthly-statistics result, also of a request interleaved  *)
(* with the owner's concurrent writes, top_category is null exactly when   *)
(* expense_count = 0, top_category_amount is null exactly when             *)
(* top_category is null, and a present top_category_amount is at most      *)
(* total_spending.                                                         *)
C23_MonthlyStatisticsConsistent ==
    (resp.op = "monthly" /\ resp.status = 200) =>
      /\ (resp.body.top_category = None) <=> (resp.body.expense_count = 0)
      /\ (resp.body.top_category_amount = None)
           <=> (resp.body.top_category = None)
      /\ resp.body.top_category_amount # None =>
           resp.body.top_category_amount[1] <= resp.body.total_spending


(* The category, total_amount and expense_count of the chart's entries. *)
ChartEntries(body) ==
    [k \in DOMAIN body.categories |->
       [category      |-> body.categories[k].category,
        total_amount  |-> body.categories[k].total_amount,
        expense_count |-> body.categories[k].expense_count]]

(* C24: for the same owner and window on an unchanged store, the           *)
(* category-chart response reports the total_spending and expense_count    *)
(* of the spending summary as its total_spending and total_expenses, and   *)
(* its entries are the entries of spending-by-category (category,          *)
(* total_amount, expense_count) in the same order.                         *)
C24_ChartAgreesWithAggregates ==
    /\ [][(/\ resp.op = "category_chart"
           /\ resp'.op = "summary"
           /\ resp'.user_id = resp.user_id
           /\ resp'.req = resp.req
           /\ store' = store)
            => /\ resp.body.total_spending = resp'.body.total_spending
               /\ resp.body.total_expenses = resp'.body.expense_count]_vars
    /\ [][(/\ resp.op = "category_chart"
           /\ resp'.op = "by_category"
           /\ resp'.user_id = resp.user_id
           /\ resp'.req = resp.req
           /\ store' = store)
            => ChartEntries(resp.body) = resp'.body]_vars


====
